---- MODULE Spec2Model ----
(***************************************************************************)
(* Model of the Hurricane SPY backtesting harness                          *)
(* (src/backtest_hurricane.py, class HurricaneBacktest).                    *)
(*                                                                         *)
(* Python floats are IEEE-754 binary64.  The harness divides counters and   *)
(* accumulates quotients, and some of its properties depend on the         *)
(* rounding of those operations, so floats are modelled bit-exactly:       *)
(* a float is zero or a signed 53-bit mantissa hi * 2^27 + lo scaled by    *)
(* 2^e, and +, / round to nearest, ties to even.  Exponents stay far from  *)
(* the subnormal and overflow ranges for every value the model reaches.    *)
(* The sign of a zero is not kept: the harness only adds, divides and       *)
(* compares, and -0.0 and 0.0 compare equal and add alike.                  *)
(***************************************************************************)
EXTENDS Integers, Sequences, FiniteSets, TLC

\* ------------------------------------------------------------------------
\* Natural numbers below 2^58 as two limbs <<h, l>> = h * 2^27 + l
\* (TLC integers are 32 bits wide).
\* ------------------------------------------------------------------------
Limb == 2^27

BigDbl(a) == <<2 * a[1] + ((2 * a[2]) \div Limb), (2 * a[2]) % Limb>>

BigHalf(a) == <<a[1] \div 2, (a[1] % 2) * (Limb \div 2) + (a[2] \div 2)>>

BigOdd(a) == a[2] % 2 = 1

BigZero(a) == a[1] = 0 /\ a[2] = 0

BigGeq(a, b) == a[1] > b[1] \/ (a[1] = b[1] /\ a[2] >= b[2])

BigAdd(a, b) == <<a[1] + b[1] + ((a[2] + b[2]) \div Limb), (a[2] + b[2]) % Limb>>

BigSub(a, b) ==
    IF a[2] >= b[2] THEN <<a[1] - b[1], a[2] - b[2]>>
    ELSE <<a[1] - b[1] - 1, a[2] + Limb - b[2]>>

\* a * 2^k, for 0 < k < 27 and a < 2^(58 - k)
BigShiftLeft(a, k) ==
    <<a[1] * 2^k + (a[2] \div 2^(27 - k)), (a[2] % 2^(27 - k)) * 2^k>>

\* a with its lowest bit set when sticky: the bits shifted out were not all 0.
BigSticky(a, sticky) == IF sticky /\ ~BigOdd(a) THEN BigAdd(a, <<0, 1>>) ELSE a

\* a shifted right by one bit, the bit shifted out or-ed into the new lowest bit.
BigHalfSticky(a) == BigSticky(BigHalf(a), BigOdd(a))

RECURSIVE BigShiftRightSticky(_, _)
BigShiftRightSticky(a, n) ==
    IF n = 0 THEN a
    ELSE IF BigZero(BigHalf(a)) THEN BigSticky(<<0, 0>>, ~BigZero(a))
    ELSE BigShiftRightSticky(BigHalfSticky(a), n - 1)

\* ------------------------------------------------------------------------
\* binary64 values
\* ------------------------------------------------------------------------
FloatZero == [neg |-> FALSE, hi |-> 0, lo |-> 0, e |-> 0]

IsZero(x) == x.hi = 0 /\ x.lo = 0

Mant(x) == <<x.hi, x.lo>>

\* Extended mantissas carry three more bits (guard, round, sticky):
\* normalised when 2^55 <= n < 2^56, i.e. 2^28 <= n[1] < 2^29.
RECURSIVE RoundPack(_, _, _)
RoundPack(neg, n, e) ==
    IF BigZero(n) THEN FloatZero
    ELSE IF n[1] >= 2^29 THEN RoundPack(neg, BigHalfSticky(n), e + 1)
    ELSE IF n[1] < 2^14 THEN RoundPack(neg, BigShiftLeft(n, 14), e - 14)
    ELSE IF n[1] < 2^21 THEN RoundPack(neg, BigShiftLeft(n, 7), e - 7)
    ELSE IF n[1] < 2^25 THEN RoundPack(neg, BigShiftLeft(n, 3), e - 3)
    ELSE IF n[1] < 2^28 THEN RoundPack(neg, BigDbl(n), e - 1)
    ELSE LET m    == BigHalf(BigHalf(BigHalf(n)))
             rest == n[2] % 8
             up   == rest > 4 \/ (rest = 4 /\ BigOdd(m))
             r    == IF up THEN BigAdd(m, <<0, 1>>) ELSE m
         IN  IF r[1] >= 2^26
             THEN [neg |-> neg, hi |-> 2^25, lo |-> 0, e |-> e + 4]
             ELSE [neg |-> neg, hi |-> r[1], lo |-> r[2], e |-> e + 3]

\* float(n) for an integer n, |n| < 2^29
FromInt(n) == RoundPack(n < 0, <<IF n < 0 THEN -n ELSE n, 0>>, -27)

FloatNeg(x) == IF IsZero(x) THEN x ELSE [x EXCEPT !.neg = ~x.neg]

FloatAbs(x) == [x EXCEPT !.neg = FALSE]

\* |x| < |y|
MagLess(x, y) ==
    IF IsZero(y) THEN FALSE
    ELSE IF IsZero(x) THEN TRUE
    ELSE x.e < y.e \/ (x.e = y.e /\ ~BigGeq(Mant(x), Mant(y)))

FloatLess(x, y) ==
    IF x.neg /\ ~y.neg THEN TRUE
    ELSE IF ~x.neg /\ y.neg THEN FALSE
    ELSE IF x.neg THEN MagLess(y, x)
    ELSE MagLess(x, y)

FloatLeq(x, y) == ~FloatLess(y, x)

\* x + y, rounded to nearest even
FloatAdd(x, y) ==
    IF IsZero(x) THEN y
    ELSE IF IsZero(y) THEN x
    ELSE LET big   == IF MagLess(x, y) THEN y ELSE x
             small == IF MagLess(x, y) THEN x ELSE y
             d     == big.e - small.e
             X     == BigDbl(BigDbl(BigDbl(Mant(big))))
             Y     == BigShiftRightSticky(BigDbl(BigDbl(BigDbl(Mant(small)))), d)
             N     == IF big.neg = small.neg THEN BigAdd(X, Y) ELSE BigSub(X, Y)
         IN  RoundPack(big.neg, N, big.e - 3)

FloatSub(x, y) == FloatAdd(x, FloatNeg(y))

\* Long division.  A state <<r, q>> holds the remainder and the quotient bits
\* found so far; after k steps from <<mx mod my, mx div my>> the quotient is
\* floor(mx * 2^k / my).
DivStep(s, my) ==
    LET r2 == BigDbl(s[1])
    IN  IF BigGeq(r2, my)
        THEN <<BigSub(r2, my), BigAdd(BigDbl(s[2]), <<0, 1>>)>>
        ELSE <<r2, BigDbl(s[2])>>

RECURSIVE DivBits(_, _, _)
DivBits(s, my, k) ==
    IF k = 0 THEN BigSticky(s[2], ~BigZero(s[1]))
    ELSE IF BigZero(s[1]) THEN DivBits(<<s[1], BigDbl(s[2])>>, my, k - 1)
    ELSE DivBits(DivStep(s, my), my, k - 1)

LongDiv(x, y) ==
    LET first == BigGeq(Mant(x), Mant(y))
        s0    == IF first THEN <<BigSub(Mant(x), Mant(y)), <<0, 1>>>>
                          ELSE <<Mant(x), <<0, 0>>>>
    IN  RoundPack(x.neg # y.neg, DivBits(s0, Mant(y), 56), x.e - y.e - 56)

\* The same quotient when the divisor's mantissa is short, k * 2^40 with
\* 2^12 <= k < 2^13 (every integer below 2^13 and every power of two times
\* one): schoolbook division of the dividend's four 14-bit digits by k, and
\* 16 more quotient bits from the remainder.
ShortDiv(x, y) ==
    LET k  == y.hi \div 2^13
        m3 == x.hi \div 2^15
        m2 == (x.hi \div 2) % 2^14
        m1 == (x.lo \div 2^14) + (x.hi % 2) * 2^13
        m0 == x.lo % 2^14
        t2 == (m3 % k) * 2^14 + m2
        t1 == (t2 % k) * 2^14 + m1
        t0 == (t1 % k) * 2^14 + m0
        tf == (t0 % k) * 2^16
        q3 == m3 \div k
        q2 == t2 \div k
        q1 == t1 \div k
        q0 == t0 \div k
        ql == q0 + (q1 % 2^13) * 2^14
        qh == (q1 \div 2^13) + q2 * 2 + q3 * 2^15
        n  == <<qh * 2^16 + (ql \div 2^11), (ql % 2^11) * 2^16 + (tf \div k)>>
    IN  RoundPack(x.neg # y.neg, BigSticky(n, tf % k # 0), x.e - (y.e + 40) - 16)

\* x / y for y # 0, rounded to nearest even
FloatDiv(x, y) ==
    IF IsZero(x) THEN FloatZero
    ELSE IF y.lo = 0 /\ y.hi % 2^13 = 0 THEN ShortDiv(x, y)
    ELSE LongDiv(x, y)

FloatMin(x, y) == IF FloatLess(y, x) THEN y ELSE x

One == FromInt(1)

\* a / b for Python ints a, b (true division), b # 0
IntDiv(a, b) == FloatDiv(FromInt(a), FromInt(b))

\* ------------------------------------------------------------------------
\* Data
\* ------------------------------------------------------------------------
\* Faulty variant of Timeframes: the catalog is iterated from the longest
\* timeframe to the shortest.
Timeframes_longest_first == <<"1d", "4h", "1h", "15m", "5m", "1m">>

\* The timeframe catalog, in the order run_backtest iterates it.
Timeframes == <<"1m", "5m", "15m", "1h", "4h", "1d">>

Intraday == {"1m", "5m", "15m"}

\* dict.get(key, default)
Get(d, key, default) == IF key \in DOMAIN d THEN d[key] ELSE default

\* Python values whose type the code depends on: the regime of a prediction
\* is a dict ({"state": ...}), a plain string ("TREND") or None.
None == [type |-> "NoneType"]

Str(v) == [type |-> "str", value |-> v]

Dict(d) == [type |-> "dict", value |-> d]

EmptyDict == Dict(<<>>)

Abs(n) == IF n < 0 THEN -n ELSE n

\* Nothing printed by _apply_date_filters; nothing written by save_results
NoNotice == [kind |-> "none"]

NoFiles == [kind |-> "none"]

Half == IntDiv(1, 2)

\* ------------------------------------------------------------------------
\* parse_api_prediction
\* ------------------------------------------------------------------------
\* The confidence given to a forecast of a payload that has neither a
\* confidence nor a score: 0.5, in the hundredths the inputs use.
DefaultConfidence == 50

\* api_response.get("forecasts") or api_response.get("predictions") or {}
forecast_root(api_response) ==
    IF Get(api_response, "forecasts", <<>>) # <<>> THEN api_response.forecasts
    ELSE Get(api_response, "predictions", <<>>)

\* The fields of the parsed prediction that the evaluation reads.  The regime
\* becomes the state label itself (or None), the direction is copied as it
\* is, and a forecast always gets a confidence.
parse_api_prediction(api_response) ==
    LET regime == Get(api_response, "regime", EmptyDict)
        root   == forecast_root(api_response)
        given  == {Timeframes[i] : i \in 1..Len(Timeframes)} \cap
                  {tf \in DOMAIN root : DOMAIN root[tf] # {}}
    IN  [current_price |-> Get(api_response, "currentPrice", None),
         regime        |-> IF "state" \in DOMAIN regime.value
                           THEN Str(regime.value["state"]) ELSE None,
         predictions   |->
            [tf \in given |->
                [direction  |-> Get(root[tf], "direction", "NEUTRAL"),
                 target     |-> Get(root[tf], "target", 0),
                 stop_loss  |-> Get(root[tf], "stopLoss", 0),
                 cone_upper |-> Get(root[tf], "upperBound", 0),
                 cone_lower |-> Get(root[tf], "lowerBound", 0),
                 confidence |-> Get(root[tf], "confidence",
                                    Get(root[tf], "score", DefaultConfidence))]]]

\* ------------------------------------------------------------------------
\* evaluate_prediction
\* ------------------------------------------------------------------------
NoneResult == [kind |-> "None"]

Raise(exc) == [kind |-> "raise", exception |-> exc]

\* prediction.get("currentPrice") or prediction.get("current_price", 0):
\* a missing or zero currentPrice is falsy.
entry_price(prediction) ==
    IF Get(prediction, "currentPrice", 0) # 0 THEN prediction["currentPrice"]
    ELSE Get(prediction, "current_price", 0)

\* Faulty variant of actual_price: the close on every timeframe.
actual_price_close(actual, timeframe, direction) == actual.close

\* The realized reference price of a bar for a timeframe and a direction.
actual_price(actual, timeframe, direction) ==
    IF timeframe \in Intraday
    THEN (IF direction = "BULLISH" THEN actual.high ELSE actual.low)
    ELSE actual.close

predicted_direction(direction) ==
    IF direction = "BULLISH" THEN 1 ELSE IF direction = "BEARISH" THEN -1 ELSE 0

\* Faulty variant of direction_correct: a direction of 0 agrees with any move
\* and a move of 0 with any direction.
direction_correct_unsigned(actual_move, dir) ==
    (actual_move >= 0 /\ dir >= 0) \/ (actual_move <= 0 /\ dir <= 0)

direction_correct(actual_move, dir) ==
    (actual_move > 0 /\ dir > 0) \/ (actual_move < 0 /\ dir < 0)

\* Faulty variants of r_multiple: a loss that is not capped at one risk unit,
\* a zero risk counted as one unit, and a cap applied to wins as well.
r_multiple_uncapped(entry, stop_loss, actual_move, dir) ==
    IF dir # 0
    THEN LET risk   == Abs(entry - stop_loss)
             reward == Abs(actual_move)
             r      == IF risk > 0 THEN IntDiv(reward, risk) ELSE FloatZero
         IN  IF ~direction_correct(actual_move, dir) THEN FloatNeg(r) ELSE r
    ELSE FloatZero

r_multiple_unit_risk(entry, stop_loss, actual_move, dir) ==
    IF dir # 0
    THEN LET risk   == Abs(entry - stop_loss)
             reward == Abs(actual_move)
             r      == IF risk > 0 THEN IntDiv(reward, risk) ELSE FromInt(reward)
         IN  IF ~direction_correct(actual_move, dir)
             THEN FloatNeg(FloatMin(One, r))
             ELSE r
    ELSE FloatZero

r_multiple_capped(entry, stop_loss, actual_move, dir) ==
    IF dir # 0
    THEN LET risk   == Abs(entry - stop_loss)
             reward == Abs(actual_move)
             r      == IF risk > 0 THEN IntDiv(reward, risk) ELSE FloatZero
         IN  IF ~direction_correct(actual_move, dir)
             THEN FloatNeg(FloatMin(One, r))
             ELSE FloatMin(One, r)
    ELSE FloatZero

\* Faulty variant of r_multiple: the loss takes the larger of one risk unit
\* and the adverse move, max for min.
r_multiple_max_cap(entry, stop_loss, actual_move, dir) ==
    IF dir # 0
    THEN LET risk   == Abs(entry - stop_loss)
             reward == Abs(actual_move)
             r      == IF risk > 0 THEN IntDiv(reward, risk) ELSE FloatZero
         IN  IF ~direction_correct(actual_move, dir)
             THEN FloatNeg(IF FloatLess(One, r) THEN r ELSE One)
             ELSE r
    ELSE FloatZero

r_multiple(entry, stop_loss, actual_move, dir) ==
    IF dir # 0
    THEN LET risk   == Abs(entry - stop_loss)
             reward == Abs(actual_move)
             r      == IF risk > 0 THEN IntDiv(reward, risk) ELSE FloatZero
         IN  IF ~direction_correct(actual_move, dir)
             THEN FloatNeg(FloatMin(One, r))
             ELSE r
    ELSE FloatZero

\* Faulty variant of within_cone: a price on a bound of the interval is not
\* within the cone.
within_cone_exclusive(pred, price) ==
    pred.cone_lower < price /\ price < pred.cone_upper

within_cone(pred, price) == pred.cone_lower <= price /\ price <= pred.cone_upper

price_percentile(pred, price) ==
    LET cone_width == pred.cone_upper - pred.cone_lower
    IN  IF cone_width > 0 THEN IntDiv(price - pred.cone_lower, cone_width) ELSE Half

\* prediction.get("regime", {}).get("state")
\*   or prediction.get("regime", {}).get("current") or "UNKNOWN";
\* "" stands for a missing or empty label.
regime_label(regime) ==
    IF Get(regime.value, "state", "") # "" THEN regime.value["state"]
    ELSE IF Get(regime.value, "current", "") # "" THEN regime.value["current"]
    ELSE "UNKNOWN"

\* Faulty variant of evaluate_prediction: the forecast is looked up with
\* prediction["predictions"][timeframe], which raises when it is missing.
evaluate_prediction_subscript(spy, date, timeframe, prediction) ==
    IF date \notin DOMAIN spy THEN NoneResult
    ELSE IF timeframe \notin DOMAIN prediction.predictions THEN Raise("KeyError")
    ELSE LET actual == spy[date]
             pred   == prediction.predictions[timeframe]
             entry  == entry_price(prediction)
             price  == actual_price(actual, timeframe, pred.direction)
             move   == price - entry
             dir    == predicted_direction(pred.direction)
             regime == Get(prediction, "regime", EmptyDict)
         IN  IF regime.type # "dict" THEN Raise("AttributeError")
             ELSE IF "confidence" \notin DOMAIN pred THEN Raise("KeyError")
             ELSE [kind                |-> "FitRecord",
                   date                |-> date,
                   timeframe           |-> timeframe,
                   regime              |-> regime_label(regime),
                   direction_predicted |-> pred.direction,
                   direction_correct   |-> direction_correct(move, dir),
                   entry_price         |-> entry,
                   target              |-> pred.target,
                   stop_loss           |-> pred.stop_loss,
                   actual_price        |-> price,
                   r_multiple          |-> r_multiple(entry, pred.stop_loss, move, dir),
                   within_cone         |-> within_cone(pred, price),
                   cone_percentile     |-> price_percentile(pred, price),
                   confidence          |-> pred.confidence]

evaluate_prediction(spy, date, timeframe, prediction) ==
    IF date \notin DOMAIN spy THEN NoneResult
    ELSE IF timeframe \notin DOMAIN prediction.predictions THEN NoneResult
    ELSE LET actual == spy[date]
             pred   == prediction.predictions[timeframe]
             entry  == entry_price(prediction)
             price  == actual_price(actual, timeframe, pred.direction)
             move   == price - entry
             dir    == predicted_direction(pred.direction)
             regime == Get(prediction, "regime", EmptyDict)
         IN  IF regime.type # "dict" THEN Raise("AttributeError")
             ELSE IF "confidence" \notin DOMAIN pred THEN Raise("KeyError")
             ELSE [kind                |-> "FitRecord",
                   date                |-> date,
                   timeframe           |-> timeframe,
                   regime              |-> regime_label(regime),
                   direction_predicted |-> pred.direction,
                   direction_correct   |-> direction_correct(move, dir),
                   entry_price         |-> entry,
                   target              |-> pred.target,
                   stop_loss           |-> pred.stop_loss,
                   actual_price        |-> price,
                   r_multiple          |-> r_multiple(entry, pred.stop_loss, move, dir),
                   within_cone         |-> within_cone(pred, price),
                   cone_percentile     |-> price_percentile(pred, price),
                   confidence          |-> pred.confidence]

\* ------------------------------------------------------------------------
\* The summary (self.results) and its folds
\* ------------------------------------------------------------------------
\* Counters that Python keeps as ints are integers here, except the four
\* cone_calibration buckets, which finalize_statistics turns into floats in
\* place: they are floats throughout (an int count n is the float n).
InitResults ==
    [total_trades     |-> 0,
     winning_trades   |-> 0,
     losing_trades    |-> 0,
     total_r_multiple |-> FloatZero,
     avg_r_multiple   |-> FloatZero,
     by_timeframe     |-> <<>>,
     by_regime        |-> <<>>,
     cone_calibration |-> [within_10pct  |-> FloatZero,
                           within_25pct  |-> FloatZero,
                           within_50pct  |-> FloatZero,
                           outside_50pct |-> FloatZero]]

\* d with d[key] = value (an assignment d[key] = value of Python)
Put(d, key, value) ==
    [k \in DOMAIN d \cup {key} |-> IF k = key THEN value ELSE d[k]]

Between(lo, x, hi) == FloatLeq(lo, x) /\ FloatLeq(x, hi)

\* The float literals 0.4, 0.6, 0.25 and 0.75: the doubles nearest to the
\* fractions.
Lit040 == IntDiv(2, 5)

Lit060 == IntDiv(3, 5)

Lit025 == IntDiv(1, 4)

Lit075 == IntDiv(3, 4)

\* Faulty variant of update_cone_calibration: exclusive buckets, each record
\* counted in the narrowest band that holds it.
update_cone_calibration_exclusive(cone, percentile) ==
    LET in10 == Between(Lit040, percentile, Lit060)
        in25 == Between(Lit025, percentile, Lit075)
        in50 == Between(FloatZero, percentile, One)
    IN  [within_10pct  |-> IF in10 THEN FloatAdd(cone.within_10pct, One)
                           ELSE cone.within_10pct,
         within_25pct  |-> IF in25 /\ ~in10 THEN FloatAdd(cone.within_25pct, One)
                           ELSE cone.within_25pct,
         within_50pct  |-> IF in50 /\ ~in25 THEN FloatAdd(cone.within_50pct, One)
                           ELSE cone.within_50pct,
         outside_50pct |-> IF in50 THEN cone.outside_50pct
                           ELSE FloatAdd(cone.outside_50pct, One)]

\* Faulty variant of update_cone_calibration: the else branch hangs on the
\* 25% test, so a percentile between the 25% band and the cone's bounds is
\* counted both inside and outside the cone.
update_cone_calibration_outside_of_25(cone, percentile) ==
    LET in10 == Between(Lit040, percentile, Lit060)
        in25 == Between(Lit025, percentile, Lit075)
        in50 == Between(FloatZero, percentile, One)
    IN  [within_10pct  |-> IF in10 THEN FloatAdd(cone.within_10pct, One)
                           ELSE cone.within_10pct,
         within_25pct  |-> IF in25 THEN FloatAdd(cone.within_25pct, One)
                           ELSE cone.within_25pct,
         within_50pct  |-> IF in50 THEN FloatAdd(cone.within_50pct, One)
                           ELSE cone.within_50pct,
         outside_50pct |-> IF in25 THEN cone.outside_50pct
                           ELSE FloatAdd(cone.outside_50pct, One)]

update_cone_calibration(cone, percentile) ==
    LET in10 == Between(Lit040, percentile, Lit060)
        in25 == Between(Lit025, percentile, Lit075)
        in50 == Between(FloatZero, percentile, One)
    IN  [within_10pct  |-> IF in10 THEN FloatAdd(cone.within_10pct, One)
                           ELSE cone.within_10pct,
         within_25pct  |-> IF in25 THEN FloatAdd(cone.within_25pct, One)
                           ELSE cone.within_25pct,
         within_50pct  |-> IF in50 THEN FloatAdd(cone.within_50pct, One)
                           ELSE cone.within_50pct,
         outside_50pct |-> IF in50 THEN cone.outside_50pct
                           ELSE FloatAdd(cone.outside_50pct, One)]

\* Faulty variant of update_by_timeframe: the wins of a timeframe are set to
\* one by a win instead of being incremented.
update_by_timeframe_assigning(table, trade) ==
    LET tf    == trade.timeframe
        stats == Get(table, tf, [trades |-> 0, wins |-> 0,
                                 total_r |-> FloatZero, within_cone |-> 0])
    IN  Put(table, tf,
            [stats EXCEPT
               !.trades = @ + 1,
               !.wins = IF trade.direction_correct THEN 1 ELSE @,
               !.total_r = FloatAdd(@, trade.r_multiple),
               !.within_cone = IF trade.within_cone THEN @ + 1 ELSE @])

update_by_timeframe(table, trade) ==
    LET tf    == trade.timeframe
        stats == Get(table, tf, [trades |-> 0, wins |-> 0,
                                 total_r |-> FloatZero, within_cone |-> 0])
    IN  Put(table, tf,
            [stats EXCEPT
               !.trades = @ + 1,
               !.wins = IF trade.direction_correct THEN @ + 1 ELSE @,
               !.total_r = FloatAdd(@, trade.r_multiple),
               !.within_cone = IF trade.within_cone THEN @ + 1 ELSE @])

\* Faulty variant of update_by_regime: the record that creates the row of a
\* regime is counted as a trade but its win is not.
update_by_regime_first_win_missed(table, trade) ==
    LET regime == trade.regime
        stats  == Get(table, regime, [trades |-> 0, wins |-> 0, total_r |-> FloatZero])
    IN  Put(table, regime,
            [stats EXCEPT
               !.trades = @ + 1,
               !.wins = IF trade.direction_correct /\ regime \in DOMAIN table
                        THEN @ + 1 ELSE @,
               !.total_r = FloatAdd(@, trade.r_multiple)])

update_by_regime(table, trade) ==
    LET regime == trade.regime
        stats  == Get(table, regime, [trades |-> 0, wins |-> 0, total_r |-> FloatZero])
    IN  Put(table, regime,
            [stats EXCEPT
               !.trades = @ + 1,
               !.wins = IF trade.direction_correct THEN @ + 1 ELSE @,
               !.total_r = FloatAdd(@, trade.r_multiple)])

update_statistics(res, trade) ==
    [res EXCEPT
       !.total_trades = @ + 1,
       !.winning_trades = IF trade.direction_correct THEN @ + 1 ELSE @,
       !.losing_trades = IF trade.direction_correct THEN @ ELSE @ + 1,
       !.total_r_multiple = FloatAdd(@, trade.r_multiple),
       !.by_timeframe = update_by_timeframe(@, trade),
       !.by_regime = update_by_regime(@, trade),
       !.cone_calibration = update_cone_calibration(@, trade.cone_percentile)]

\* sum(self.results["cone_calibration"].values()): the values are added from
\* the left in the dict's key order (CPython's sum() before its 3.12
\* compensated summation).
total_cone_checks(cone) ==
    FloatAdd(FloatAdd(FloatAdd(cone.within_10pct, cone.within_25pct),
                      cone.within_50pct),
             cone.outside_50pct)

\* Faulty variant of normalize_cone_calibration: the buckets are divided by
\* the number of records, within_50pct + outside_50pct, not by the sum of
\* the four buckets.
normalize_cone_calibration_by_records(cone) ==
    LET total == FloatAdd(cone.within_50pct, cone.outside_50pct)
    IN  IF FloatLess(FloatZero, total)
        THEN [key \in DOMAIN cone |-> FloatDiv(cone[key], total)]
        ELSE cone

normalize_cone_calibration(cone) ==
    LET total == total_cone_checks(cone)
    IN  IF FloatLess(FloatZero, total)
        THEN [key \in DOMAIN cone |-> FloatDiv(cone[key], total)]
        ELSE cone

finalize_timeframe(stats) ==
    IF stats.trades > 0
    THEN Put(Put(Put(stats, "win_rate", IntDiv(stats.wins, stats.trades)),
                 "avg_r", FloatDiv(stats.total_r, FromInt(stats.trades))),
             "cone_accuracy", IntDiv(stats.within_cone, stats.trades))
    ELSE stats

finalize_regime(stats) ==
    IF stats.trades > 0
    THEN Put(Put(stats, "win_rate", IntDiv(stats.wins, stats.trades)),
             "avg_r", FloatDiv(stats.total_r, FromInt(stats.trades)))
    ELSE stats

finalize_statistics(res) ==
    IF res.total_trades > 0
    THEN Put(Put(Put(Put(Put(res,
             "avg_r_multiple", FloatDiv(res.total_r_multiple, FromInt(res.total_trades))),
             "win_rate", IntDiv(res.winning_trades, res.total_trades)),
             "by_timeframe", [tf \in DOMAIN res.by_timeframe |->
                                 finalize_timeframe(res.by_timeframe[tf])]),
             "by_regime", [regime \in DOMAIN res.by_regime |->
                              finalize_regime(res.by_regime[regime])]),
             "cone_calibration", normalize_cone_calibration(res.cone_calibration))
    ELSE res

\* ------------------------------------------------------------------------
\* Dates.  A date is a day number; a prediction file is named after its date,
\* "%Y-%m-%d", zero-padded, of which the model keeps two digits,
\* <<tens, units>>.
\* ------------------------------------------------------------------------
\* A datetime.date
Date(day) == [type |-> "date", day |-> day]

\* date.strftime("%Y-%m-%d")
DateKey(day) == <<day \div 10, day % 10>>

\* datetime.strptime(key, "%Y-%m-%d").date()
ParseDate(key) == key[1] * 10 + key[2]

\* s < t for two keys, as Python compares strings
KeyLess(s, t) == s[1] < t[1] \/ (s[1] = t[1] /\ s[2] < t[2])

\* sorted(keys)
RECURSIVE sorted(_)
sorted(keys) ==
    IF keys = {} THEN <<>>
    ELSE LET first == CHOOSE k \in keys : \A o \in keys \ {k} : KeyLess(k, o)
         IN  <<first>> \o sorted(keys \ {first})

Max(a, b) == IF a > b THEN a ELSE b

Min(a, b) == IF a < b THEN a ELSE b

\* The prediction set restricted to the dates of [first, last]
filtered(preds, first, last) ==
    [key \in {k \in DOMAIN preds : first <= ParseDate(k) /\ ParseDate(k) <= last}
        |-> preds[key]]

\* Faulty variant of apply_date_filters: the window is not clamped to the
\* available dates.
apply_date_filters_unclamped(preds, start, end, m) ==
    IF DOMAIN preds = {}
    THEN [predictions |-> preds, start_date |-> start, end_date |-> end,
          notice |-> NoNotice]
    ELSE LET all_dates == sorted(DOMAIN preds)
             latest    == ParseDate(all_dates[Len(all_dates)])
             end1      == IF end.type = "NoneType" THEN latest ELSE end.day
             start1    == IF start.type = "NoneType" THEN end1 - m * 30 ELSE start.day
         IN  IF start1 > end1
             THEN [predictions |-> <<>>, start_date |-> Date(start1),
                   end_date |-> Date(end1), notice |-> [kind |-> "empty"]]
             ELSE [predictions |-> filtered(preds, start1, end1),
                   start_date  |-> Date(start1),
                   end_date    |-> Date(end1),
                   notice      |-> NoNotice]

\* Faulty variant of apply_date_filters: the default start is counted back
\* from the latest available date instead of from the end of the window.
apply_date_filters_start_from_latest(preds, start, end, m) ==
    IF DOMAIN preds = {}
    THEN [predictions |-> preds, start_date |-> start, end_date |-> end,
          notice |-> NoNotice]
    ELSE LET all_dates     == sorted(DOMAIN preds)
             earliest      == ParseDate(all_dates[1])
             latest        == ParseDate(all_dates[Len(all_dates)])
             end1          == IF end.type = "NoneType" THEN latest ELSE end.day
             start1        == IF start.type = "NoneType" THEN latest - m * 30 ELSE start.day
             clamped_start == Max(start1, earliest)
             clamped_end   == Min(end1, latest)
             kept          == filtered(preds, clamped_start, clamped_end)
         IN  IF clamped_start > clamped_end
             THEN [predictions |-> <<>>, start_date |-> Date(start1),
                   end_date |-> Date(end1), notice |-> [kind |-> "empty"]]
             ELSE [predictions |-> kept,
                   start_date  |-> Date(clamped_start),
                   end_date    |-> Date(clamped_end),
                   notice      |-> NoNotice]

\* Faulty variant of apply_date_filters: with no predictions loaded the
\* window the caller asked for is forgotten.
apply_date_filters_reset_when_empty(preds, start, end, m) ==
    IF DOMAIN preds = {}
    THEN [predictions |-> preds, start_date |-> None, end_date |-> None,
          notice |-> NoNotice]
    ELSE LET all_dates     == sorted(DOMAIN preds)
             earliest      == ParseDate(all_dates[1])
             latest        == ParseDate(all_dates[Len(all_dates)])
             end1          == IF end.type = "NoneType" THEN latest ELSE end.day
             start1        == IF start.type = "NoneType" THEN end1 - m * 30 ELSE start.day
             clamped_start == Max(start1, earliest)
             clamped_end   == Min(end1, latest)
             kept          == filtered(preds, clamped_start, clamped_end)
         IN  IF clamped_start > clamped_end
             THEN [predictions |-> <<>>, start_date |-> Date(start1),
                   end_date |-> Date(end1), notice |-> [kind |-> "empty"]]
             ELSE [predictions |-> kept,
                   start_date  |-> Date(clamped_start),
                   end_date    |-> Date(clamped_end),
                   notice      |-> NoNotice]

\* Faulty variant of apply_date_filters: an empty window leaves the loaded
\* predictions in place.
apply_date_filters_keep_on_empty_window(preds, start, end, m) ==
    IF DOMAIN preds = {}
    THEN [predictions |-> preds, start_date |-> start, end_date |-> end,
          notice |-> NoNotice]
    ELSE LET all_dates     == sorted(DOMAIN preds)
             earliest      == ParseDate(all_dates[1])
             latest        == ParseDate(all_dates[Len(all_dates)])
             end1          == IF end.type = "NoneType" THEN latest ELSE end.day
             start1        == IF start.type = "NoneType" THEN end1 - m * 30 ELSE start.day
             clamped_start == Max(start1, earliest)
             clamped_end   == Min(end1, latest)
             kept          == filtered(preds, clamped_start, clamped_end)
         IN  IF clamped_start > clamped_end
             THEN [predictions |-> preds, start_date |-> Date(start1),
                   end_date |-> Date(end1), notice |-> [kind |-> "empty"]]
             ELSE [predictions |-> kept,
                   start_date  |-> Date(clamped_start),
                   end_date    |-> Date(clamped_end),
                   notice      |-> NoNotice]

\* Faulty variant of apply_date_filters: the missing days are counted from
\* the requested bound to the clamped bound inclusive.
apply_date_filters_missing_inclusive(preds, start, end, m) ==
    IF DOMAIN preds = {}
    THEN [predictions |-> preds, start_date |-> start, end_date |-> end,
          notice |-> NoNotice]
    ELSE LET all_dates     == sorted(DOMAIN preds)
             earliest      == ParseDate(all_dates[1])
             latest        == ParseDate(all_dates[Len(all_dates)])
             end1          == IF end.type = "NoneType" THEN latest ELSE end.day
             start1        == IF start.type = "NoneType" THEN end1 - m * 30 ELSE start.day
             clamped_start == Max(start1, earliest)
             clamped_end   == Min(end1, latest)
             kept          == filtered(preds, clamped_start, clamped_end)
         IN  IF clamped_start > clamped_end
             THEN [predictions |-> <<>>, start_date |-> Date(start1),
                   end_date |-> Date(end1), notice |-> [kind |-> "empty"]]
             ELSE [predictions |-> kept,
                   start_date  |-> Date(clamped_start),
                   end_date    |-> Date(clamped_end),
                   notice      |->
                       IF clamped_start > start1 \/ clamped_end < end1
                       THEN [kind          |-> "limited",
                             missing_start |-> clamped_start - start1 + 1,
                             missing_end   |-> end1 - clamped_end + 1,
                             excluded      |-> Cardinality(DOMAIN preds)
                                                 - Cardinality(DOMAIN kept)]
                       ELSE NoNotice]

\* _apply_date_filters, as a function of the object's fields: the new
\* predictions, start_date and end_date, and what it printed.  In a notice
\* a count of 0 stands for None.
apply_date_filters(preds, start, end, m) ==
    IF DOMAIN preds = {}
    THEN [predictions |-> preds, start_date |-> start, end_date |-> end,
          notice |-> NoNotice]
    ELSE LET all_dates     == sorted(DOMAIN preds)
             earliest      == ParseDate(all_dates[1])
             latest        == ParseDate(all_dates[Len(all_dates)])
             end1          == IF end.type = "NoneType" THEN latest ELSE end.day
             start1        == IF start.type = "NoneType" THEN end1 - m * 30 ELSE start.day
             clamped_start == Max(start1, earliest)
             clamped_end   == Min(end1, latest)
             kept          == filtered(preds, clamped_start, clamped_end)
         IN  IF clamped_start > clamped_end
             THEN [predictions |-> <<>>, start_date |-> Date(start1),
                   end_date |-> Date(end1), notice |-> [kind |-> "empty"]]
             ELSE [predictions |-> kept,
                   start_date  |-> Date(clamped_start),
                   end_date    |-> Date(clamped_end),
                   notice      |->
                     IF clamped_start > start1 \/ clamped_end < end1
                     THEN [kind          |-> "limited",
                           missing_start |-> Max(clamped_start - start1, 0),
                           missing_end   |-> Max(end1 - clamped_end, 0),
                           excluded      |-> Cardinality(DOMAIN preds)
                                               - Cardinality(DOMAIN kept)]
                     ELSE NoNotice]

\* ------------------------------------------------------------------------
\* Inputs
\* ------------------------------------------------------------------------
MaxPrice == 3

Prices == 0..MaxPrice

\* OHLC bars (the open and the volume are never read by the evaluation)
Bars ==
    {[high |-> h, low |-> l, close |-> c] :
        h \in Prices, l \in Prices, c \in Prices} \cap
    {b \in [high : Prices, low : Prices, close : Prices] :
        b.low <= b.close /\ b.close <= b.high}

Directions == {"BULLISH", "BEARISH", "NEUTRAL", "BUY"}

\* <<cone_lower, cone_upper>>: proper, inverted and zero-width intervals
ConeInputs == {<<1, 3>>, <<3, 1>>, <<2, 2>>, <<0, 4>>, <<0, 5>>}

EntryInputs == {0, 1}

StopInputs == {0, 1}

Forecasts ==
    {[direction |-> d, target |-> 3, stop_loss |-> s,
      cone_lower |-> c[1], cone_upper |-> c[2]] :
        d \in Directions, s \in StopInputs, c \in ConeInputs}

\* A forecast with or without its "confidence" (80 stands for 0.80)
WithConfidence(f) == Put(f, "confidence", 80)

ForecastInputs == Forecasts \cup {WithConfidence(f) : f \in Forecasts}

\* The forecasts of one prediction: none, or the same one for every timeframe
ForecastMaps(fs) ==
    {<<>>} \cup {[tf \in {Timeframes[i] : i \in 1..Len(Timeframes)} |-> f] : f \in fs}

\* The regime of a prediction: a dict with a state or a current label, the
\* plain label create_prediction_example writes and parse_api_prediction
\* produces, or parse_api_prediction's None for a payload without a regime.
RegimeInputs ==
    {Dict([state |-> "TREND"]), Dict([current |-> "CHOP"]), Str("TREND"), None}

PredictionInputs ==
    {[current_price |-> p, predictions |-> m] :
        p \in EntryInputs, m \in ForecastMaps(ForecastInputs)}
    \cup
    {[current_price |-> p, regime |-> r, predictions |-> m] :
        p \in EntryInputs, r \in RegimeInputs, m \in ForecastMaps(ForecastInputs)}

EvalDate == DateKey(2)

\* ------------------------------------------------------------------------
\* State
\* ------------------------------------------------------------------------
VARIABLES
    pc,           \* where the caller of the object stands
    spy_data,     \* self.spy_data: date key -> bar
    predictions,  \* self.predictions: date key -> prediction
    trades,       \* self.trades: the evaluation log
    results,      \* self.results: the summary
    start_date,   \* self.start_date (a day number, or None)
    end_date,     \* self.end_date
    months,       \* self.months
    mode,         \* self.mode: "offline" or "api"
    configured,   \* unusual_whales_client.is_configured
    cursor,       \* run_backtest's loop: <<index of the date, of the timeframe>>
    notice,       \* what _apply_date_filters printed
    saved,        \* the files save_results wrote
    call,         \* the last method called, with its arguments
    result,       \* what that call returned or raised
    args          \* the command line main() parsed

vars == <<pc, spy_data, predictions, trades, results, start_date, end_date,
          months, mode, configured, cursor, notice, saved, call, result, args>>

\* The parts of the state that only run_backtest and its loaders touch
run == <<mode, configured, cursor, notice, saved>>

NoCall == [op |-> "none"]

\* HurricaneBacktest.__init__
Constructed(md, start, end, m) ==
    /\ mode = md
    /\ cursor = <<1, 1>>
    /\ notice = NoNotice
    /\ saved = NoFiles
    /\ spy_data = <<>>
    /\ predictions = <<>>
    /\ trades = <<>>
    /\ results = InitResults
    /\ start_date = start
    /\ end_date = end
    /\ months = IF m > 1 THEN m ELSE 1
    /\ call = NoCall
    /\ result = NoneResult

\* ------------------------------------------------------------------------
\* One evaluation: evaluate_prediction on one bar and one prediction, and the
\* fold of its record, as in the body of run_backtest's loop.
\* ------------------------------------------------------------------------
\* A fresh object whose spy_data holds no bar or one bar.
EvalInit ==
    /\ pc = "evaluate"
    /\ spy_data \in {<<>>} \cup {[d \in {EvalDate} |-> b] : b \in Bars}
    /\ predictions = <<>>
    /\ trades = <<>>
    /\ results = InitResults
    /\ start_date = None
    /\ end_date = None
    /\ months = 3
    /\ mode = "offline"
    /\ configured = FALSE
    /\ cursor = <<1, 1>>
    /\ notice = NoNotice
    /\ saved = NoFiles
    /\ call = NoCall
    /\ result = NoneResult
    /\ args = NoCall

\* Faulty variant of EvaluateCall: evaluate_prediction appends the record
\* it returns to the evaluation log itself.
EvaluateCall_logging(date, timeframe, prediction) ==
    /\ pc = "evaluate"
    /\ call' = [op |-> "evaluate_prediction", date |-> date,
                timeframe |-> timeframe, prediction |-> prediction]
    /\ result' = evaluate_prediction(spy_data, date, timeframe, prediction)
    /\ pc' = IF result'.kind = "FitRecord" THEN "fold"
             ELSE IF result'.kind = "raise" THEN "raised" ELSE "skipped"
    /\ trades' = IF result'.kind = "FitRecord" THEN Append(trades, result')
                 ELSE trades
    /\ UNCHANGED <<spy_data, predictions, results, start_date, end_date,
                   months, run, args>>

EvaluateCall(date, timeframe, prediction) ==
    /\ pc = "evaluate"
    /\ call' = [op |-> "evaluate_prediction", date |-> date,
                timeframe |-> timeframe, prediction |-> prediction]
    /\ result' = evaluate_prediction(spy_data, date, timeframe, prediction)
    /\ pc' = IF result'.kind = "FitRecord" THEN "fold"
             ELSE IF result'.kind = "raise" THEN "raised" ELSE "skipped"
    /\ UNCHANGED <<spy_data, predictions, trades, results, start_date, end_date,
                   months, run, args>>

FoldResult ==
    /\ pc = "fold"
    /\ trades' = Append(trades, result)
    /\ results' = update_statistics(results, result)
    /\ call' = [op |-> "update_statistics", trade |-> result]
    /\ pc' = "folded"
    /\ UNCHANGED <<spy_data, predictions, start_date, end_date, months, run, result, args>>

EvalNext ==
    \/ \E tf \in {Timeframes[i] : i \in 1..Len(Timeframes)}, p \in PredictionInputs :
          EvaluateCall(EvalDate, tf, p)
    \/ FoldResult

EvalSpec == EvalInit /\ [][EvalNext]_vars

\* ------------------------------------------------------------------------
\* Folds and finalizations: any sequence of update_statistics calls on a
\* fresh object, then finalize_statistics, once or twice.
\* ------------------------------------------------------------------------
MaxFolds == 3

\* <<timeframe, regime>>: two keys for each of the two sub-tables, which
\* update_statistics maintains independently of each other
FoldContexts == {<<"1m", "TREND">>, <<"1h", "UNKNOWN">>}

\* <<direction_correct, r_multiple>>: a win of a third of a risk unit and a
\* full loss
Outcomes == {<<TRUE, IntDiv(1, 3)>>, <<FALSE, FloatNeg(One)>>}

\* Cone percentiles on, between and beyond the thresholds of the buckets
PercentileInputs ==
    {FloatNeg(Lit025), FloatZero, Lit025, Lit040, Half, Lit060, Lit075, One,
     IntDiv(5, 4)}

\* FitRecords, with the fields update_statistics reads
TradeInputs ==
    {[kind              |-> "FitRecord",
      timeframe         |-> c[1],
      regime            |-> c[2],
      direction_correct |-> o[1],
      r_multiple        |-> o[2],
      within_cone       |-> Between(FloatZero, p, One),
      cone_percentile   |-> p] :
        c \in FoldContexts, o \in Outcomes, p \in PercentileInputs}

FoldInit ==
    /\ pc = "folding"
    /\ Constructed("offline", None, None, 3)
    /\ configured = FALSE
    /\ args = NoCall

UpdateStatisticsCall(trade) ==
    /\ pc = "folding"
    /\ results.total_trades < MaxFolds
    /\ results' = update_statistics(results, trade)
    /\ call' = [op |-> "update_statistics", trade |-> trade]
    /\ UNCHANGED <<pc, spy_data, predictions, trades, start_date, end_date,
                   months, run, result, args>>

FinalizeStatisticsCall ==
    /\ pc \in {"folding", "finalized"}
    /\ results' = finalize_statistics(results)
    /\ call' = [op |-> "finalize_statistics"]
    /\ pc' = IF pc = "folding" THEN "finalized" ELSE "finalized_twice"
    /\ UNCHANGED <<spy_data, predictions, trades, start_date, end_date,
                   months, run, result, args>>

FoldNext ==
    \/ \E trade \in TradeInputs : UpdateStatisticsCall(trade)
    \/ FinalizeStatisticsCall

FoldSpec == FoldInit /\ [][FoldNext]_vars

\* ------------------------------------------------------------------------
\* Shards: the records of a log folded in two parts (ShardSpec)
\* ------------------------------------------------------------------------
\* The records a sharded fold is tried on: both contexts, both outcomes, a
\* percentile inside the cone and one outside
ShardTradeInputs ==
    {t \in TradeInputs : t.cone_percentile \in {Half, IntDiv(5, 4)}}

\* The loop body of run_backtest over a sequence of records: each one is
\* folded into the summary with update_statistics, in order.
RECURSIVE fold_records(_, _)
fold_records(res, records) ==
    IF records = <<>> THEN res
    ELSE fold_records(update_statistics(res, Head(records)), Tail(records))

\* The records of a log whose positions are in the set S, in log order
RECURSIVE shard(_, _, _)
shard(records, S, i) ==
    IF i > Len(records) THEN <<>>
    ELSE (IF i \in S THEN <<records[i]>> ELSE <<>>) \o shard(records, S, i + 1)

\* Field-wise addition of two sub-table rows: counts as integers, total_r as
\* floats
merge_stats(a, b) ==
    [f \in DOMAIN a |-> IF f = "total_r" THEN FloatAdd(a[f], b[f]) ELSE a[f] + b[f]]

\* Two sub-tables merged by key
merge_tables(a, b) ==
    [k \in DOMAIN a \cup DOMAIN b |->
        IF k \in DOMAIN a /\ k \in DOMAIN b THEN merge_stats(a[k], b[k])
        ELSE IF k \in DOMAIN a THEN a[k] ELSE b[k]]

\* Two partial summaries added field by field
merge_summaries(a, b) ==
    [total_trades     |-> a.total_trades + b.total_trades,
     winning_trades   |-> a.winning_trades + b.winning_trades,
     losing_trades    |-> a.losing_trades + b.losing_trades,
     total_r_multiple |-> FloatAdd(a.total_r_multiple, b.total_r_multiple),
     avg_r_multiple   |-> FloatAdd(a.avg_r_multiple, b.avg_r_multiple),
     by_timeframe     |-> merge_tables(a.by_timeframe, b.by_timeframe),
     by_regime        |-> merge_tables(a.by_regime, b.by_regime),
     cone_calibration |-> [key \in DOMAIN a.cone_calibration |->
                              FloatAdd(a.cone_calibration[key],
                                       b.cone_calibration[key])]]

\* The summary of a log folded in the two shards S and its complement, each
\* into a fresh summary, merged and finalized once
sharded_summary(records, S) ==
    finalize_statistics(
        merge_summaries(
            fold_records(InitResults, shard(records, S, 1)),
            fold_records(InitResults, shard(records, (1..Len(records)) \ S, 1))))

ShardInit ==
    /\ pc = "sharding"
    /\ Constructed("offline", None, None, 3)
    /\ configured = FALSE
    /\ args = NoCall

\* One iteration of the loop that yields a record: the record is logged and
\* folded.
ShardFold(trade) ==
    /\ pc = "sharding"
    /\ Len(trades) < MaxFolds
    /\ trades' = Append(trades, trade)
    /\ results' = update_statistics(results, trade)
    /\ call' = [op |-> "update_statistics", trade |-> trade]
    /\ UNCHANGED <<pc, spy_data, predictions, start_date, end_date, months,
                   run, result, args>>

ShardFinalize ==
    /\ pc = "sharding"
    /\ results' = finalize_statistics(results)
    /\ call' = [op |-> "finalize_statistics"]
    /\ pc' = "finalized"
    /\ UNCHANGED <<spy_data, predictions, trades, start_date, end_date,
                   months, run, result, args>>

ShardNext ==
    \/ \E trade \in ShardTradeInputs : ShardFold(trade)
    \/ ShardFinalize

ShardSpec == ShardInit /\ [][ShardNext]_vars

\* ------------------------------------------------------------------------
\* A run of the command-line entry point: main, then run_backtest step by
\* step.
\* ------------------------------------------------------------------------
\* --start and --end: absent, or a day
WindowInputs == {None, Date(1), Date(15), Date(31)}

MonthInputs == {0, 1, 3}

\* The days that may have a prediction file and a row of SPY data
FileDays == {10, 20, 45}

SpyBar(day) ==
    IF day = 10 THEN [high |-> 3, low |-> 1, close |-> 2]
    ELSE IF day = 20 THEN [high |-> 2, low |-> 0, close |-> 0]
    ELSE [high |-> 3, low |-> 3, close |-> 3]

\* spy_data.csv: missing (a template is written and nothing is loaded), or
\* rows for the first two days, or for all three
SpyFiles ==
    {[key \in {DateKey(d) : d \in days} |-> SpyBar(ParseDate(key))] :
        days \in {{}, {10, 20}, FileDays}}

Forecast(direction, stop, lower, upper) ==
    [direction |-> direction, target |-> 3, stop_loss |-> stop,
     cone_lower |-> lower, cone_upper |-> upper, confidence |-> 80]

AllTimeframes == {Timeframes[i] : i \in 1..Len(Timeframes)}

\* The prediction file of a day: a regime dict and six bullish forecasts; no
\* regime and two bearish forecasts; the shape of create_prediction_example.
OfflineFile(day) ==
    IF day = 10
    THEN [current_price |-> 1, regime |-> Dict([state |-> "TREND"]),
          predictions |-> [tf \in AllTimeframes |-> Forecast("BULLISH", 0, 1, 3)]]
    ELSE IF day = 20
    THEN [current_price |-> 1,
          predictions |-> [tf \in {"1m", "1d"} |-> Forecast("BEARISH", 2, 0, 4)]]
    ELSE [current_price |-> 1, regime |-> Str("TREND"),
          predictions |-> [tf \in AllTimeframes |-> Forecast("NEUTRAL", 0, 2, 2)]]

\* The payload the API answers for a day: a regime dict and, for every
\* timeframe, a forecast with an upstream direction label and no confidence.
ApiResponse(day) ==
    [currentPrice |-> 1, regime |-> Dict([state |-> "TREND"]),
     forecasts |-> [tf \in AllTimeframes |->
                       [direction |-> IF day = 10 THEN "BUY" ELSE "BULLISH",
                        target |-> 3, stopLoss |-> 0,
                        lowerBound |-> 1, upperBound |-> 3]]]

\* parse_api_prediction of the payload of a day
ApiPrediction(day) == parse_api_prediction(ApiResponse(day))

MainCalls ==
    {[op |-> "main", mode |-> md, start |-> s, end |-> e, months |-> m] :
        md \in {"offline", "api"}, s \in WindowInputs, e \in WindowInputs,
        m \in MonthInputs}

\* main has parsed its arguments; no object exists yet (its fields hold what
\* __init__ will give them).
Init ==
    /\ pc = "main"
    /\ call \in MainCalls
    /\ configured \in BOOLEAN
    /\ mode = "offline"
    /\ cursor = <<1, 1>>
    /\ notice = NoNotice
    /\ saved = NoFiles
    /\ spy_data = <<>>
    /\ predictions = <<>>
    /\ trades = <<>>
    /\ results = InitResults
    /\ start_date = None
    /\ end_date = None
    /\ months = 3
    /\ result = NoneResult
    /\ args = call

\* Faulty variant of Main: the order of --start and --end is not checked.
Main_unchecked ==
    /\ pc = "main"
    /\ pc' = "load_spy_data"
    /\ result' = NoneResult
    /\ mode' = call.mode
    /\ start_date' = call.start
    /\ end_date' = call.end
    /\ months' = Max(1, call.months)
    /\ UNCHANGED <<spy_data, predictions, trades, results, configured, cursor,
                   notice, saved, call, args>>

\* main: a start after the end is a usage error; otherwise the object is
\* constructed and run_backtest begins.
Main ==
    /\ pc = "main"
    /\ IF /\ call.start.type = "date" /\ call.end.type = "date"
          /\ call.start.day > call.end.day
       THEN /\ pc' = "exit"
            /\ result' = Raise("SystemExit")
            /\ UNCHANGED <<mode, start_date, end_date, months>>
       ELSE /\ pc' = "load_spy_data"
            /\ result' = NoneResult
            /\ mode' = call.mode
            /\ start_date' = call.start
            /\ end_date' = call.end
            /\ months' = Max(1, call.months)
    /\ UNCHANGED <<spy_data, predictions, trades, results, configured, cursor,
                   notice, saved, call, args>>

LoadSpyData ==
    /\ pc = "load_spy_data"
    /\ \E rows \in SpyFiles : spy_data' = rows
    /\ call' = [op |-> "load_spy_data"]
    /\ pc' = "load_predictions"
    /\ UNCHANGED <<predictions, trades, results, start_date, end_date, months,
                   run, result, args>>

LoadOfflinePredictions ==
    /\ pc = "load_predictions"
    /\ mode = "offline"
    /\ \E days \in SUBSET FileDays :
          predictions' = [key \in {DateKey(d) : d \in days}
                            |-> OfflineFile(ParseDate(key))]
    /\ call' = [op |-> "load_offline_predictions"]
    /\ pc' = "filter"
    /\ UNCHANGED <<spy_data, trades, results, start_date, end_date, months,
                   run, result, args>>

\* One request per date of spy_data, from Unusual Whales when the token is
\* configured and from the local API otherwise; a failed request is
\* reported and skipped.
LoadApiPredictions ==
    /\ pc = "load_predictions"
    /\ mode # "offline"
    /\ \E fetched \in SUBSET (DOMAIN spy_data) :
          predictions' = [key \in fetched |-> ApiPrediction(ParseDate(key))]
    /\ call' = [op |-> "load_api_predictions",
                source |-> IF configured THEN "unusual_whales" ELSE "local"]
    /\ pc' = "filter"
    /\ UNCHANGED <<spy_data, trades, results, start_date, end_date, months,
                   run, result, args>>

ApplyDateFilters ==
    /\ pc = "filter"
    /\ LET f == apply_date_filters(predictions, start_date, end_date, months)
       IN  /\ predictions' = f.predictions
           /\ start_date' = f.start_date
           /\ end_date' = f.end_date
           /\ notice' = f.notice
           /\ pc' = IF DOMAIN f.predictions = {} THEN "finalize" ELSE "loop"
    /\ call' = [op |-> "_apply_date_filters", predictions |-> predictions,
                start_date |-> start_date, end_date |-> end_date]
    /\ cursor' = <<1, 1>>
    /\ UNCHANGED <<spy_data, trades, results, months, mode, configured, saved,
                   result, args>>

\* Faulty variant of EvaluateStep: the summary is finalized at the end of
\* every date instead of once after the loop.
EvaluateStep_finalizing_per_date ==
    /\ pc = "loop"
    /\ LET dates     == sorted(DOMAIN predictions)
           date      == dates[cursor[1]]
           timeframe == Timeframes[cursor[2]]
           r         == evaluate_prediction(spy_data, date, timeframe,
                                            predictions[date])
           last      == cursor[1] = Len(dates) /\ cursor[2] = Len(Timeframes)
           folded    == IF r.kind = "FitRecord"
                        THEN update_statistics(results, r) ELSE results
       IN  /\ call' = [op |-> "evaluate_prediction", date |-> date,
                       timeframe |-> timeframe, prediction |-> predictions[date]]
           /\ result' = r
           /\ IF r.kind = "raise"
              THEN /\ pc' = "aborted"
                   /\ UNCHANGED <<trades, results, cursor>>
              ELSE /\ trades' = IF r.kind = "FitRecord" THEN Append(trades, r)
                                ELSE trades
                   /\ results' = IF cursor[2] = Len(Timeframes)
                                 THEN finalize_statistics(folded) ELSE folded
                   /\ cursor' = IF cursor[2] < Len(Timeframes)
                                THEN <<cursor[1], cursor[2] + 1>>
                                ELSE <<cursor[1] + 1, 1>>
                   /\ pc' = IF last THEN "finalize" ELSE "loop"
    /\ UNCHANGED <<spy_data, predictions, start_date, end_date, months, mode,
                   configured, notice, saved, args>>

\* One iteration of run_backtest's inner loop
EvaluateStep ==
    /\ pc = "loop"
    /\ LET dates     == sorted(DOMAIN predictions)
           date      == dates[cursor[1]]
           timeframe == Timeframes[cursor[2]]
           r         == evaluate_prediction(spy_data, date, timeframe,
                                            predictions[date])
           last      == cursor[1] = Len(dates) /\ cursor[2] = Len(Timeframes)
       IN  /\ call' = [op |-> "evaluate_prediction", date |-> date,
                       timeframe |-> timeframe, prediction |-> predictions[date]]
           /\ result' = r
           /\ IF r.kind = "raise"
              THEN /\ pc' = "aborted"
                   /\ UNCHANGED <<trades, results, cursor>>
              ELSE /\ trades' = IF r.kind = "FitRecord" THEN Append(trades, r)
                                ELSE trades
                   /\ results' = IF r.kind = "FitRecord"
                                 THEN update_statistics(results, r) ELSE results
                   /\ cursor' = IF cursor[2] < Len(Timeframes)
                                THEN <<cursor[1], cursor[2] + 1>>
                                ELSE <<cursor[1] + 1, 1>>
                   /\ pc' = IF last THEN "finalize" ELSE "loop"
    /\ UNCHANGED <<spy_data, predictions, start_date, end_date, months, mode,
                   configured, notice, saved, args>>

FinalizeStatistics ==
    /\ pc = "finalize"
    /\ results' = finalize_statistics(results)
    /\ call' = [op |-> "finalize_statistics"]
    /\ pc' = "save"
    /\ UNCHANGED <<spy_data, predictions, trades, start_date, end_date, months,
                   run, result, args>>

SaveResults ==
    /\ pc = "save"
    /\ saved' = [kind |-> "files", summary |-> results, trade_log |-> trades]
    /\ call' = [op |-> "save_results"]
    /\ pc' = "done"
    /\ UNCHANGED <<spy_data, predictions, trades, results, start_date, end_date,
                   months, mode, configured, cursor, notice, result, args>>

Next ==
    \/ Main
    \/ LoadSpyData
    \/ LoadOfflinePredictions
    \/ LoadApiPredictions
    \/ ApplyDateFilters
    \/ EvaluateStep
    \/ FinalizeStatistics
    \/ SaveResults

Spec == Init /\ [][Next]_vars

\* ------------------------------------------------------------------------
\* The loop of run_backtest: evaluations of one bar, each record folded as
\* it is returned (LoopSpec)
\* ------------------------------------------------------------------------
\* A bar that closes two risk units above the entry at its high, and a bar
\* that never trades above the entry
LoopBars ==
    {[high |-> 3, low |-> 0, close |-> 3], [high |-> 1, low |-> 0, close |-> 0]}

\* Bullish and bearish forecasts with a risk of one and of two price units,
\* and a neutral one
LoopForecasts ==
    {Forecast(d, s, 1, 3) : d \in {"BULLISH", "BEARISH"}, s \in {0, 3}}
        \cup {Forecast("NEUTRAL", 0, 1, 3)}

\* <<timeframe, regime>> of an iteration: an intraday and a daily timeframe
LoopContexts ==
    {<<"1m", Dict([state |-> "TREND"])>>, <<"1d", Dict([current |-> "CHOP"])>>}

LoopPrediction(regime, f) ==
    [current_price |-> 1, regime |-> regime,
     predictions |-> [tf \in AllTimeframes |-> f]]

LoopInit ==
    /\ pc = "evaluate"
    /\ spy_data \in {[d \in {EvalDate} |-> b] : b \in LoopBars}
    /\ predictions = <<>>
    /\ trades = <<>>
    /\ results = InitResults
    /\ start_date = None
    /\ end_date = None
    /\ months = 3
    /\ mode = "offline"
    /\ configured = FALSE
    /\ cursor = <<1, 1>>
    /\ notice = NoNotice
    /\ saved = NoFiles
    /\ call = NoCall
    /\ result = NoneResult
    /\ args = NoCall

\* The for loops go on to the next pair after a fold
NextIteration ==
    /\ pc = "folded"
    /\ Len(trades) < MaxFolds
    /\ pc' = "evaluate"
    /\ UNCHANGED <<spy_data, predictions, trades, results, start_date,
                   end_date, months, run, call, result, args>>

LoopNext ==
    \/ \E c \in LoopContexts, f \in LoopForecasts :
          EvaluateCall(EvalDate, c[1], LoopPrediction(c[2], f))
    \/ FoldResult
    \/ NextIteration

LoopSpec == LoopInit /\ [][LoopNext]_vars

\* ------------------------------------------------------------------------
\* Properties of one evaluation (EvalSpec)
\* ------------------------------------------------------------------------
\* The last call was evaluate_prediction and it returned a FitRecord.
Returned == call.op = "evaluate_prediction" /\ result.kind = "FitRecord"

\* The bar and the forecast of the last evaluate_prediction call, when the
\* date has a bar and the prediction a forecast for the timeframe.
Scored ==
    /\ call.op = "evaluate_prediction"
    /\ call.date \in DOMAIN spy_data
    /\ call.timeframe \in DOMAIN call.prediction.predictions

CalledBar == spy_data[call.date]

CalledForecast == call.prediction.predictions[call.timeframe]

Directional == result.direction_predicted \in {"BULLISH", "BEARISH"}

\* C1: every returned record of a BULLISH or BEARISH forecast whose
\* direction_correct is false has -1 <= r_multiple <= 0, however far the
\* price moved against the forecast.
C1_WrongDirectionLossCapped ==
    (Returned /\ Directional /\ ~result.direction_correct)
        => /\ FloatLeq(FloatNeg(One), result.r_multiple)
           /\ FloatLeq(result.r_multiple, FloatZero)

\* A wrong-direction record whose adverse move is larger than its risk.
C1_Witness ==
    /\ Returned /\ Directional /\ ~result.direction_correct
    /\ Abs(result.entry_price - result.stop_loss) > 0
    /\ Abs(result.actual_price - result.entry_price)
          >= 2 * Abs(result.entry_price - result.stop_loss)
    /\ result.r_multiple = FloatNeg(One)

\* C2: a returned record whose entry price equals its stop has r_multiple 0,
\* whatever the direction and the actual move.
C2_ZeroRiskZeroR ==
    (Returned /\ result.entry_price = result.stop_loss)
        => result.r_multiple = FloatZero

\* A zero-risk record of a directional forecast that was right, and whose
\* price moved.
C2_Witness ==
    /\ Returned /\ Directional
    /\ result.entry_price = result.stop_loss
    /\ result.direction_correct
    /\ result.actual_price # result.entry_price
    /\ result.r_multiple = FloatZero

\* C3: a returned record of a BULLISH or BEARISH forecast with risk > 0 and a
\* correct direction has r_multiple = |actual - entry| / |entry - stop|,
\* with no cap.
C3_CorrectDirectionR ==
    (/\ Returned /\ Directional /\ result.direction_correct
     /\ result.entry_price # result.stop_loss)
        => result.r_multiple =
             IntDiv(Abs(result.actual_price - result.entry_price),
                    Abs(result.entry_price - result.stop_loss))

\* Entry 1, stop 0, close 3 on a non-intraday timeframe: a move of two risk
\* units, r_multiple 2.0.
C3_Witness ==
    /\ Returned /\ result.direction_correct
    /\ result.direction_predicted = "BULLISH"
    /\ result.timeframe = "1d"
    /\ result.entry_price = 1 /\ result.stop_loss = 0 /\ result.actual_price = 3
    /\ result.r_multiple = FromInt(2)

\* C4: whenever a bar and a forecast are present and the forecast has
\* cone_upper <= cone_lower, evaluate_prediction returns a FitRecord with
\* cone_percentile 0.5 and raises nothing.
C4_DegenerateConeHalf ==
    (Scored /\ CalledForecast.cone_upper <= CalledForecast.cone_lower)
        => /\ result.kind = "FitRecord"
           /\ result.cone_percentile = Half

\* C5: the realized reference price is the bar's high (bullish) or low
\* (bearish) on 1m, 5m and 15m, and the bar's close on 1h, 4h and 1d.
C5_ReferencePrice ==
    Returned =>
        /\ (result.timeframe \in {"1m", "5m", "15m"}
             /\ result.direction_predicted = "BULLISH")
               => result.actual_price = CalledBar.high
        /\ (result.timeframe \in {"1m", "5m", "15m"}
             /\ result.direction_predicted = "BEARISH")
               => result.actual_price = CalledBar.low
        /\ result.timeframe \in {"1h", "4h", "1d"}
               => result.actual_price = CalledBar.close

\* A bearish 15m record scored on a low that differs from the close.
C5_Witness ==
    /\ Returned
    /\ result.timeframe = "15m"
    /\ result.direction_predicted = "BEARISH"
    /\ CalledBar.low < CalledBar.close
    /\ CalledBar.close < CalledBar.high
    /\ result.actual_price = CalledBar.low

\* C17: whenever a bar and a forecast are present and the forecast carries
\* no confidence, evaluate_prediction raises nothing and returns a FitRecord
\* whose confidence is 0.5.
C17_MissingConfidenceDefault ==
    (Scored /\ "confidence" \notin DOMAIN CalledForecast)
        => /\ result.kind = "FitRecord"
           /\ result.confidence = DefaultConfidence

\* C18: whenever a bar and a forecast are present and the regime of the
\* prediction is a plain string label, evaluate_prediction raises nothing and
\* returns a FitRecord whose regime is that label.
C18_StringRegimeLabel ==
    (/\ Scored
     /\ "regime" \in DOMAIN call.prediction
     /\ call.prediction.regime.type = "str")
        => /\ result.kind = "FitRecord"
           /\ result.regime = call.prediction.regime.value

\* C19: a returned record of a BUY forecast is scored as a bullish one: its
\* direction is correct exactly when the reference price is above the entry.
C19_BuyScoredBullish ==
    (Returned /\ CalledForecast.direction = "BUY")
        => (result.direction_correct
               <=> result.actual_price > result.entry_price)

\* C20: every returned record of a NEUTRAL forecast has direction_correct
\* false, whatever the move of the price, and the fold of such a record
\* counts no win: not in the totals, not for its timeframe, not for its
\* regime.
C20_NeutralNeverWins ==
    /\ (Returned /\ result.direction_predicted = "NEUTRAL")
          => ~result.direction_correct
    /\ (pc = "folded" /\ call.trade.direction_predicted = "NEUTRAL")
          => /\ results.total_trades = 1
             /\ results.winning_trades = 0
             /\ results.by_timeframe[call.trade.timeframe].wins = 0
             /\ results.by_regime[call.trade.regime].wins = 0

\* A folded NEUTRAL record whose reference price rose above the entry: it is
\* counted as a loss, not as a win.
C20_Witness ==
    /\ pc = "folded"
    /\ call.op = "update_statistics"
    /\ call.trade.direction_predicted = "NEUTRAL"
    /\ call.trade.actual_price > call.trade.entry_price
    /\ ~call.trade.direction_correct
    /\ results.winning_trades = 0
    /\ results.losing_trades = 1

\* C23: a call of evaluate_prediction, whatever it returns or raises, leaves
\* the summary, the evaluation log, the actuals, the loaded predictions and
\* the date window as they were.
C23_EvaluateLeavesStateAlone ==
    [][(pc = "evaluate" /\ call'.op = "evaluate_prediction") =>
         /\ results' = results
         /\ trades' = trades
         /\ spy_data' = spy_data
         /\ predictions' = predictions
         /\ start_date' = start_date /\ end_date' = end_date
         /\ months' = months]_vars

\* A call that returned a record, before the caller folds it: the summary
\* is still the fresh one and the log is empty.
C23_Witness ==
    /\ pc = "fold"
    /\ Returned
    /\ result.direction_correct
    /\ results = InitResults
    /\ trades = <<>>

\* The sum of an integer field over the rows of a sub-table
RECURSIVE SumField(_, _, _)
SumField(table, keys, field) ==
    IF keys = {} THEN 0
    ELSE LET k == CHOOSE key \in keys : TRUE
         IN  table[k][field] + SumField(table, keys \ {k}, field)

SumOf(table, field) == SumField(table, DOMAIN table, field)

\* The percentile lies in the band the widest bucket counts
InUnitBand(percentile) == Between(FloatZero, percentile, One)

\* sum over the timeframes of by_timeframe[tf].within_cone
within_cone_total(res) == FromInt(SumOf(res.by_timeframe, "within_cone"))

\* C29 as stated: for every record evaluate_prediction returns, within_cone
\* is true iff 0 <= cone_percentile <= 1, and so, before the finalization,
\* the sum over the timeframes of by_timeframe[tf].within_cone is the raw
\* within_50pct count.
C29_ConeAccountingsAgree ==
    /\ Returned => (result.within_cone <=> InUnitBand(result.cone_percentile))
    /\ pc = "folded" =>
          within_cone_total(results) = results.cone_calibration.within_50pct

\* C29, amended: for every record evaluate_prediction returns, within_cone
\* implies 0 <= cone_percentile <= 1; the converse holds when the forecast
\* interval has cone_upper > cone_lower, while an interval with
\* cone_upper <= cone_lower gets the percentile 0.5 whatever the price.  So,
\* before the finalization, the sum over the timeframes of
\* by_timeframe[tf].within_cone is at most the raw within_50pct count, and
\* equal to it when no folded record has cone_upper <= cone_lower.
C29_ConeAccountingsNested ==
    [][(pc = "fold" /\ pc' = "folded") =>
         LET pred       == CalledForecast
             degenerate == pred.cone_upper <= pred.cone_lower
         IN  /\ result.within_cone => InUnitBand(result.cone_percentile)
             /\ ~degenerate =>
                   (InUnitBand(result.cone_percentile) => result.within_cone)
             /\ degenerate => result.cone_percentile = Half
             /\ FloatLeq(within_cone_total(results'),
                         results'.cone_calibration.within_50pct)
             /\ ~degenerate =>
                   within_cone_total(results') =
                       results'.cone_calibration.within_50pct]_vars

\* The fold of a record of a zero-width interval [2, 2] and a price of 3:
\* not within the cone, yet counted in within_50pct.
C29_Witness ==
    /\ pc = "folded"
    /\ ~result.within_cone
    /\ result.cone_percentile = Half
    /\ result.actual_price = 3
    /\ within_cone_total(results) = FloatZero
    /\ results.cone_calibration.within_50pct = One

\* ------------------------------------------------------------------------
\* Properties of folds and finalizations (FoldSpec)
\* ------------------------------------------------------------------------
\* C6: a fold of a record with cone_percentile p increments within_10pct iff
\* 0.4 <= p <= 0.6, within_25pct iff 0.25 <= p <= 0.75, within_50pct iff
\* 0 <= p <= 1 and outside_50pct iff p is outside [0, 1], and changes no
\* bucket otherwise.
C6_ConeBuckets ==
    [][call'.op = "update_statistics" =>
         LET p    == call'.trade.cone_percentile
             old  == results.cone_calibration
             new  == results'.cone_calibration
             in50 == FloatLeq(FloatZero, p) /\ FloatLeq(p, One)
             Incremented(key, hit) ==
                 new[key] = IF hit THEN FloatAdd(old[key], One) ELSE old[key]
         IN  /\ Incremented("within_10pct",
                            FloatLeq(Lit040, p) /\ FloatLeq(p, Lit060))
             /\ Incremented("within_25pct",
                            FloatLeq(Lit025, p) /\ FloatLeq(p, Lit075))
             /\ Incremented("within_50pct", in50)
             /\ Incremented("outside_50pct", ~in50)]_vars

\* A record with p = 0.5 folded after a record outside the cone: the three
\* inner buckets went from 0 to 1 in the same fold.
C6_Witness ==
    /\ pc = "folding"
    /\ call.op = "update_statistics"
    /\ call.trade.cone_percentile = Half
    /\ results.total_trades = 2
    /\ results.cone_calibration =
          [within_10pct |-> One, within_25pct |-> One,
           within_50pct |-> One, outside_50pct |-> One]

\* C7: the first finalize_statistics on a summary with at least one folded
\* record leaves in each cone_calibration bucket its count divided by the
\* number of records folded.
C7_BucketsOverRecords ==
    [][(pc = "folding" /\ pc' = "finalized" /\ results.total_trades > 0) =>
         \A key \in DOMAIN results.cone_calibration :
             results'.cone_calibration[key] =
                 FloatDiv(results.cone_calibration[key],
                          FromInt(results.total_trades))]_vars

\* C8: a second finalize_statistics right after the first changes no derived
\* rate (finalize_statistics writes nothing but the derived rates).
C8_FinalizeIdempotent ==
    [][(pc = "finalized" /\ pc' = "finalized_twice") => results' = results]_vars

\* C9: after finalize_statistics on an empty summary win_rate and
\* avg_r_multiple are present and zero, and so is every bucket.
C9_EmptyFinalizeZeroRates ==
    (pc = "finalized" /\ results.total_trades = 0)
        => /\ "win_rate" \in DOMAIN results
           /\ results.win_rate = FloatZero
           /\ results.avg_r_multiple = FloatZero
           /\ \A key \in DOMAIN results.cone_calibration :
                  results.cone_calibration[key] = FloatZero

\* C27: before the finalization, after any sequence of folds, the raw
\* buckets are nested, within_10pct <= within_25pct <= within_50pct, and
\* within_50pct + outside_50pct is the number of records folded.
C27_RawBucketsNested ==
    pc = "folding" =>
        LET cone == results.cone_calibration
        IN  /\ FloatLeq(cone.within_10pct, cone.within_25pct)
            /\ FloatLeq(cone.within_25pct, cone.within_50pct)
            /\ FloatAdd(cone.within_50pct, cone.outside_50pct)
                  = FromInt(results.total_trades)

\* Three folds, of percentiles in the 10% band, in the 25% band only and
\* beyond the cone: the raw buckets are 1, 2, 2 and 1.
C27_Witness ==
    /\ pc = "folding"
    /\ results.total_trades = 3
    /\ results.cone_calibration =
          [within_10pct |-> One, within_25pct |-> FromInt(2),
           within_50pct |-> FromInt(2), outside_50pct |-> One]

\* Each bucket after the step is its raw count before the step divided by
\* the sum of the four raw counts.
NormalizedByRawSum ==
    \A key \in DOMAIN results.cone_calibration :
        results'.cone_calibration[key] =
            FloatDiv(results.cone_calibration[key],
                     total_cone_checks(results.cone_calibration))

\* 2^-50: four roundings of a quotient or a sum of at most 1 stay below it.
RoundingSlack == [One EXCEPT !.e = @ - 50]

\* C28 as stated: after the finalize_statistics of a summary with at least
\* one folded record each bucket is its raw count divided by the sum of the
\* four raw counts, and the four values sum to exactly 1.
C28_BucketsSumToOne ==
    [][(pc = "folding" /\ pc' = "finalized" /\ results.total_trades > 0) =>
         /\ NormalizedByRawSum
         /\ total_cone_checks(results'.cone_calibration) = One]_vars

\* C28, amended: after the finalize_statistics of a summary with at least
\* one folded record each bucket is its raw count divided by the sum of the
\* four raw counts, rounded to a float, and the four values sum to 1 up to
\* that rounding: their float sum is within 2^-50 of 1.
C28_BucketsSumNearOne ==
    [][(pc = "folding" /\ pc' = "finalized" /\ results.total_trades > 0) =>
         /\ NormalizedByRawSum
         /\ FloatLeq(FloatAbs(FloatSub(
                total_cone_checks(results'.cone_calibration), One)),
                RoundingSlack)]_vars

\* The raw buckets 1, 2, 2, 1 of three records finalized to 1/6, 1/3, 1/3
\* and 1/6, four floats whose sum is below 1.
C28_Witness ==
    /\ pc = "finalized"
    /\ call.op = "finalize_statistics"
    /\ results.total_trades = 3
    /\ results.cone_calibration =
          [within_10pct |-> IntDiv(1, 6), within_25pct |-> IntDiv(1, 3),
           within_50pct |-> IntDiv(1, 3), outside_50pct |-> IntDiv(1, 6)]
    /\ total_cone_checks(results.cone_calibration) # One

\* ------------------------------------------------------------------------
\* Properties of a run (Spec)
\* ------------------------------------------------------------------------
\* The days of the loaded prediction files
LoadedDays == {ParseDate(key) : key \in DOMAIN predictions}

EarliestLoaded == CHOOSE d \in LoadedDays : \A o \in LoadedDays : d <= o

LatestLoaded == CHOOSE d \in LoadedDays : \A o \in LoadedDays : o <= d

\* The window asked for: the caller's end or else the latest loaded day, the
\* caller's start or else months * 30 days before that end.
WindowEnd == IF end_date.type = "date" THEN end_date.day ELSE LatestLoaded

WindowStart ==
    IF start_date.type = "date" THEN start_date.day ELSE WindowEnd - months * 30

\* C10: with a prediction loaded and a window that is not empty,
\* _apply_date_filters keeps exactly the entries dated within
\* [max(start, earliest), min(end, latest)], unchanged, and sets start_date
\* and end_date to these two bounds.
C10_FilterKeepsClampedWindow ==
    [][(/\ pc = "filter" /\ pc' # "filter"
        /\ LoadedDays # {}
        /\ Max(WindowStart, EarliestLoaded) <= Min(WindowEnd, LatestLoaded)) =>
         LET first == Max(WindowStart, EarliestLoaded)
             last  == Min(WindowEnd, LatestLoaded)
         IN  /\ DOMAIN predictions' =
                  {key \in DOMAIN predictions :
                      first <= ParseDate(key) /\ ParseDate(key) <= last}
             /\ \A key \in DOMAIN predictions' : predictions'[key] = predictions[key]
             /\ start_date' = Date(first)
             /\ end_date' = Date(last)]_vars

\* Files of days 10, 20 and 45 filtered with --start day 1 and --end day
\* 31: the start is clamped to day 10, the file of day 45 is dropped and the
\* other two are kept as loaded.
C10_Witness ==
    /\ call.op = "_apply_date_filters"
    /\ DOMAIN call.predictions = {DateKey(10), DateKey(20), DateKey(45)}
    /\ call.start_date = Date(1)
    /\ call.end_date = Date(31)
    /\ DOMAIN predictions = {DateKey(10), DateKey(20)}
    /\ predictions[DateKey(20)] = call.predictions[DateKey(20)]
    /\ start_date = Date(10)
    /\ end_date = Date(31)

\* The end a call of _apply_date_filters works with, as the specification
\* words it: the caller's end, or else the latest loaded day.
DefaultedEnd == IF end_date.type = "date" THEN end_date.day ELSE LatestLoaded

\* The default start: max(1, months) * 30 days before that end, months being
\* the --months argument of the command line.
DefaultStart == DefaultedEnd - Max(1, args.months) * 30

\* C11: with predictions loaded, _apply_date_filters takes the latest loaded
\* day for an end that was not given and, for a start that was not given,
\* the day max(1, months) * 30 days before the end (the caller's end if
\* given, else the defaulted one): the window it keeps and the start_date
\* and end_date it stores are those of these defaults.
C11_WindowDefaults ==
    [][(/\ pc = "filter" /\ pc' # "filter"
        /\ LoadedDays # {}) =>
         /\ end_date = None => end_date' = Date(LatestLoaded)
         /\ start_date = None =>
              LET first == Max(DefaultStart, EarliestLoaded)
                  last  == Min(DefaultedEnd, LatestLoaded)
              IN  /\ start_date' = IF first <= last THEN Date(first)
                                   ELSE Date(DefaultStart)
                  /\ DOMAIN predictions' =
                       {key \in DOMAIN predictions :
                           /\ DefaultStart <= ParseDate(key)
                           /\ ParseDate(key) <= DefaultedEnd}]_vars

\* A run with --months 0 and neither --start nor --end over the files of
\* days 10, 20 and 45: the end is day 45 and the start day 15, thirty days
\* before it, so the file of day 10 is dropped.
C11_Witness ==
    /\ call.op = "_apply_date_filters"
    /\ args.months = 0
    /\ call.start_date = None
    /\ call.end_date = None
    /\ DOMAIN call.predictions = {DateKey(10), DateKey(20), DateKey(45)}
    /\ DOMAIN predictions = {DateKey(20), DateKey(45)}
    /\ start_date = Date(15)
    /\ end_date = Date(45)

\* C12: with no predictions loaded _apply_date_filters changes nothing: the
\* predictions stay empty, nothing is raised or printed, and start_date and
\* end_date keep the values the caller gave, None included.
C12_EmptyFilterNoOp ==
    [][(/\ pc = "filter" /\ pc' # "filter"
        /\ DOMAIN predictions = {}) =>
         /\ predictions' = predictions
         /\ start_date' = start_date /\ start_date' = args.start
         /\ end_date' = end_date /\ end_date' = args.end
         /\ notice' = NoNotice
         /\ pc' # "aborted" /\ result' = result]_vars

\* A run with --start day 15 and no --end that found no prediction file:
\* after the filter the start is still day 15 and the end still None.
C12_Witness ==
    /\ call.op = "_apply_date_filters"
    /\ call.predictions = <<>>
    /\ call.start_date = Date(15)
    /\ call.end_date = None
    /\ predictions = <<>>
    /\ start_date = Date(15)
    /\ end_date = None

\* The window of the call is empty: the clamped start is after the clamped
\* end.
EmptyWindow ==
    /\ LoadedDays # {}
    /\ Max(WindowStart, EarliestLoaded) > Min(WindowEnd, LatestLoaded)

\* C13: when the clamped start is after the clamped end,
\* _apply_date_filters leaves no prediction and raises nothing, and
\* run_backtest then runs to its end and saves a summary with
\* total_trades = 0 and an empty evaluation log.
C13_EmptyWindowZeroTrades ==
    [][/\ (pc = "filter" /\ pc' # "filter" /\ EmptyWindow) =>
            /\ predictions' = <<>>
            /\ notice'.kind = "empty"
            /\ trades' = <<>>
            /\ results'.total_trades = 0
            /\ pc' = "finalize" /\ result' = result
       /\ (pc = "finalize" /\ pc' # "finalize" /\ notice.kind = "empty") =>
            /\ pc' = "save"
            /\ trades' = <<>>
            /\ results'.total_trades = 0
       /\ (pc = "save" /\ pc' # "save" /\ notice.kind = "empty") =>
            /\ pc' = "done"
            /\ saved'.kind = "files"
            /\ saved'.summary.total_trades = 0
            /\ saved'.trade_log = <<>>]_vars

\* A run with --start day 31 over files whose latest day is 20: the window
\* is empty, and the run has ended with a saved summary of no trade.
C13_Witness ==
    /\ pc = "done"
    /\ args.start = Date(31)
    /\ args.end = None
    /\ start_date = Date(31)
    /\ end_date = Date(20)
    /\ notice.kind = "empty"
    /\ predictions = <<>>
    /\ saved.kind = "files"
    /\ saved.summary.total_trades = 0
    /\ saved.trade_log = <<>>

\* C14: when the window asked for reaches beyond the available dates (and
\* is not empty once clamped), _apply_date_filters reports
\* clamped_start - requested_start days missing at the start and
\* requested_end - clamped_end days missing at the end.
C14_MissingDaysReported ==
    [][(/\ pc = "filter" /\ pc' # "filter"
        /\ LoadedDays # {}
        /\ ~EmptyWindow
        /\ \/ WindowStart < EarliestLoaded
           \/ WindowEnd > LatestLoaded) =>
         /\ notice'.kind = "limited"
         /\ notice'.missing_start = start_date'.day - WindowStart
         /\ notice'.missing_end = WindowEnd - end_date'.day]_vars

\* A run with --start day 1 and --end day 31 over the files of days 10 and
\* 20: the window is clamped to days 10 to 20 and the notice counts 9 days
\* missing at the start and 11 at the end.
C14_Witness ==
    /\ call.op = "_apply_date_filters"
    /\ DOMAIN call.predictions = {DateKey(10), DateKey(20)}
    /\ call.start_date = Date(1)
    /\ call.end_date = Date(31)
    /\ start_date = Date(10)
    /\ end_date = Date(20)
    /\ notice.kind = "limited"
    /\ notice.missing_start = 9
    /\ notice.missing_end = 11

\* The place of a timeframe in the catalog 1m, 5m, 15m, 1h, 4h, 1d
CatalogRank(timeframe) ==
    CASE timeframe = "1m"  -> 1
      [] timeframe = "5m"  -> 2
      [] timeframe = "15m" -> 3
      [] timeframe = "1h"  -> 4
      [] timeframe = "4h"  -> 5
      [] timeframe = "1d"  -> 6

\* Record a comes before record b: an earlier date, or the same date and an
\* earlier timeframe of the catalog.
LoggedBefore(a, b) ==
    \/ KeyLess(a.date, b.date)
    \/ a.date = b.date /\ CatalogRank(a.timeframe) < CatalogRank(b.timeframe)

\* C15: the evaluation log of a run is in ascending order of date and, within
\* a date, in catalog order, with at most one record for a (date, timeframe);
\* it is determined by the inputs: each record is what evaluate_prediction
\* returns for its date and timeframe, and a finished run has logged every
\* pair for which a record is returned.
C15_LogOrderedByDateAndCatalog ==
    /\ \A i, j \in 1..Len(trades) : i < j => LoggedBefore(trades[i], trades[j])
    /\ pc \in {"loop", "finalize", "save", "done"} =>
         \A i \in 1..Len(trades) :
            /\ trades[i].date \in DOMAIN predictions
            /\ trades[i] = evaluate_prediction(spy_data, trades[i].date,
                               trades[i].timeframe, predictions[trades[i].date])
    /\ pc = "done" =>
         \A date \in DOMAIN predictions : \A timeframe \in AllTimeframes :
            evaluate_prediction(spy_data, date, timeframe,
                                predictions[date]).kind = "FitRecord" =>
               \E i \in 1..Len(trades) :
                  trades[i].date = date /\ trades[i].timeframe = timeframe

\* A finished run over the files of days 10 and 20: six records of day 10 in
\* catalog order, then the two of day 20.
C15_Witness ==
    /\ pc = "done"
    /\ Len(trades) = 8
    /\ [i \in 1..8 |-> ParseDate(trades[i].date)] = <<10, 10, 10, 10, 10, 10, 20, 20>>
    /\ [i \in 1..8 |-> trades[i].timeframe] =
          <<"1m", "5m", "15m", "1h", "4h", "1d", "1m", "1d">>

\* C16: when the date of a (date, timeframe) pair has no bar, or its
\* prediction no forecast for the timeframe, evaluate_prediction returns
\* None and raises nothing, and run_backtest leaves the evaluation log and
\* the whole summary as they were and goes on to the next pair.
C16_AbsentPairSkipped ==
    [][(/\ pc = "loop" /\ call'.op = "evaluate_prediction"
        /\ \/ call'.date \notin DOMAIN spy_data
           \/ call'.timeframe \notin DOMAIN call'.prediction.predictions) =>
         /\ result' = NoneResult
         /\ trades' = trades
         /\ results' = results
         /\ pc' \in {"loop", "finalize"}
         /\ cursor' = IF cursor[2] < 6 THEN <<cursor[1], cursor[2] + 1>>
                      ELSE <<cursor[1] + 1, 1>>]_vars

\* The file of day 20 has no 5m forecast: the pair was skipped with six
\* records of day 10 in the log and in the summary, and the loop stands at
\* the 15m timeframe of day 20 with the 1m record of that day added.
C16_Witness ==
    /\ pc = "loop"
    /\ call.op = "evaluate_prediction"
    /\ call.date = DateKey(20)
    /\ call.timeframe = "5m"
    /\ call.date \in DOMAIN spy_data
    /\ "5m" \notin DOMAIN call.prediction.predictions
    /\ result = NoneResult
    /\ Len(trades) = 7
    /\ results.total_trades = 7
    /\ cursor[2] = 3

\* C21: in a run finalize_statistics is called once: when the loop is over
\* (every pair of a date and a timeframe has been evaluated and folded), and
\* before save_results.  No derived rate exists in the summary before that
\* call, and after it neither the summary nor the log changes: save_results
\* writes the summary as finalize_statistics left it.
C21_FinalizeOnceAfterFolds ==
    [][/\ (call'.op = "finalize_statistics") =>
            /\ pc = "finalize" /\ pc' = "save"
            /\ cursor = <<Cardinality(DOMAIN predictions) + 1, 1>>
                  \/ DOMAIN predictions = {}
            /\ Len(trades) = results.total_trades
            /\ trades' = trades
       /\ "win_rate" \in DOMAIN results' => pc' \in {"save", "done"}
       /\ pc' = "save" => pc = "finalize"
       /\ pc \in {"save", "done"} =>
            /\ pc' = "done"
            /\ call'.op = "save_results"
            /\ results' = results /\ trades' = trades
            /\ saved'.summary = results /\ saved'.trade_log = trades]_vars

\* A finished run over the files of days 10 and 20: eight records were
\* folded, then the summary was finalized and saved with its rates.
C21_Witness ==
    /\ pc = "done"
    /\ call.op = "save_results"
    /\ results.total_trades = 8
    /\ Len(trades) = 8
    /\ "win_rate" \in DOMAIN results
    /\ saved.summary = results

\* ------------------------------------------------------------------------
\* Properties of the loop (LoopSpec)
\* ------------------------------------------------------------------------
\* C30: after any sequence of folds of records that evaluate_prediction
\* returned, total_r_multiple >= -losing_trades, every row of by_timeframe
\* and of by_regime has total_r >= -(trades - wins), and every record with
\* direction_correct true has r_multiple >= 0.
C30_LossesBoundCumulativeR ==
    /\ FloatLeq(FromInt(-results.losing_trades), results.total_r_multiple)
    /\ \A table \in {results.by_timeframe, results.by_regime} :
          \A k \in DOMAIN table :
             FloatLeq(FromInt(-(table[k].trades - table[k].wins)),
                      table[k].total_r)
    /\ \A i \in 1..Len(trades) :
          trades[i].direction_correct =>
              FloatLeq(FloatZero, trades[i].r_multiple)

\* Three folds on the bar that closes two risk units above the entry: a
\* bearish daily forecast with a risk of one unit, lost and capped at -1,
\* one with a risk of two units, and a bullish win; the bound is met.
C30_Witness ==
    /\ pc = "folded"
    /\ Len(trades) = 3
    /\ results.winning_trades = 1
    /\ results.losing_trades = 2
    /\ results.total_r_multiple = FloatZero
    /\ \E i \in 1..3 :
          /\ ~trades[i].direction_correct
          /\ trades[i].actual_price - trades[i].entry_price = 2
          /\ trades[i].stop_loss = 0
          /\ trades[i].r_multiple = FloatNeg(One)
    /\ \E row \in DOMAIN results.by_timeframe :
          /\ results.by_timeframe[row].trades = 2
          /\ results.by_timeframe[row].wins = 0
          /\ results.by_timeframe[row].total_r = FromInt(-2)

\* ------------------------------------------------------------------------
\* Properties of sharded folds (ShardSpec)
\* ------------------------------------------------------------------------
\* A summary without its sums of R and the averages derived from them
WithoutR(res) ==
    [f \in DOMAIN res \ {"total_r_multiple", "avg_r_multiple"} |->
        IF f \in {"by_timeframe", "by_regime"}
        THEN [k \in DOMAIN res[f] |->
                 [g \in DOMAIN res[f][k] \ {"total_r", "avg_r"} |-> res[f][k][g]]]
        ELSE res[f]]

\* C22 as claimed: for every split of the log into two shards, the shards
\* folded into fresh summaries, merged field by field and finalized once
\* give the summary of the whole log folded and finalized once.
C22_ShardedFoldSameSummary ==
    pc = "finalized" =>
        \A S \in SUBSET (1..Len(trades)) : sharded_summary(trades, S) = results

\* C22 as amended: the two summaries agree in every counter, sub-table
\* count, win rate, cone accuracy and histogram bucket; the sums of R and
\* their averages are left out, for they depend on the order of the float
\* additions.
C22_ShardedFoldSameCounts ==
    pc = "finalized" =>
        \A S \in SUBSET (1..Len(trades)) :
            WithoutR(sharded_summary(trades, S)) = WithoutR(results)

\* Three records of two timeframes, two wins of a third of a unit and a full
\* loss, folded and finalized: the shards {1} and {2, 3} agree with the
\* whole fold in the counts and differ from it in the sum of R.
C22_Witness ==
    /\ pc = "finalized"
    /\ Len(trades) = 3
    /\ trades[1].timeframe # trades[3].timeframe
    /\ trades[1].direction_correct /\ trades[2].direction_correct
    /\ ~trades[3].direction_correct
    /\ results.total_trades = 3
    /\ WithoutR(sharded_summary(trades, {1})) = WithoutR(results)
    /\ sharded_summary(trades, {1}).total_r_multiple # results.total_r_multiple

\* The command line gives a start date later than the end date.
InvertedRange ==
    /\ args.start.type = "date" /\ args.end.type = "date"
    /\ args.start.day > args.end.day

\* C24: a command line whose start date is after its end date is rejected by
\* main with SystemExit, and that is all that happens: no object is
\* constructed (the fields stay as they were), nothing is loaded, evaluated
\* or saved.
C24_InvertedRangeRejected ==
    InvertedRange =>
        /\ pc \in {"main", "exit"}
        /\ pc = "exit" => result = Raise("SystemExit")
        /\ call.op = "main"
        /\ spy_data = <<>> /\ predictions = <<>>
        /\ trades = <<>> /\ results = InitResults
        /\ start_date = None /\ end_date = None
        /\ saved = NoFiles

\* main was called with --start day 31 and --end day 1 and has exited.
C24_Witness ==
    /\ pc = "exit"
    /\ args.start = Date(31)
    /\ args.end = Date(1)
    /\ result = Raise("SystemExit")
    /\ spy_data = <<>>

\* C25: a run in api mode without configured credentials stops with a usage
\* error before any evaluation work: it never reaches the evaluation loop,
\* the finalization or the saving of results.
C25_UnconfiguredApiRejected ==
    (args.mode = "api" /\ ~configured) =>
        /\ pc \notin {"loop", "aborted", "finalize", "save", "done"}
        /\ call.op # "evaluate_prediction"

\* C26: between two iterations of the loop, and so in every partial
\* snapshot, the counters agree: total_trades is the length of the log, the
\* sum of wins and losses, and the sum of the trades of either sub-table;
\* winning_trades is the sum of the wins of either sub-table; every row of
\* a sub-table has at least one trade and between 0 and trades wins.
C26_CountersConsistent ==
    /\ results.total_trades = Len(trades)
    /\ results.total_trades = results.winning_trades + results.losing_trades
    /\ results.total_trades = SumOf(results.by_timeframe, "trades")
    /\ results.total_trades = SumOf(results.by_regime, "trades")
    /\ results.winning_trades = SumOf(results.by_timeframe, "wins")
    /\ results.winning_trades = SumOf(results.by_regime, "wins")
    /\ \A table \in {results.by_timeframe, results.by_regime} :
          \A k \in DOMAIN table :
             /\ table[k].trades >= 1
             /\ 0 <= table[k].wins /\ table[k].wins <= table[k].trades

\* A snapshot after three iterations: two wins and a loss over two
\* timeframes and two regimes.
C26_Witness ==
    /\ pc = "sharding"
    /\ Len(trades) = 3
    /\ results.winning_trades = 2
    /\ results.losing_trades = 1
    /\ Cardinality(DOMAIN results.by_timeframe) = 2
    /\ Cardinality(DOMAIN results.by_regime) = 2
    /\ \E k \in DOMAIN results.by_regime :
          results.by_regime[k].trades = 2 /\ results.by_regime[k].wins = 1

====
